---- MODULE Spec2Model ----
(***************************************************************************)
(* State-machine model of judge/views/blog.py: the blog post list, the     *)
(* ticket feed, the single post page and the contest sidebar of the feed.  *)
(* The database rows the views read are the state; a request is an action  *)
(* that leaves the database alone and records what the view returned.      *)
(***************************************************************************)
EXTENDS Integers, Sequences, FiniteSets, TLC

\* ------------------------------------------------------------------ bounds
NumPosts == 2
NumOrgs == 2
NumProfiles == 2
NumTickets == 2
NumComments == 2
NumContests == 2
MaxTime == 1
MaxEdits == 3

PostIds == 1..NumPosts
Orgs == 1..NumOrgs
Profiles == 1..NumProfiles
TicketIds == 1..NumTickets
CommentIds == 1..NumComments
ContestIds == 1..NumContests
Times == 0..MaxTime

\* request.organization when no organization context is active (falsy).
NoOrganization == 0
\* request.profile of a request that is not logged in.
NoProfile == 0

VARIABLES
    posts,          \* BlogPost rows: id -> fields
    comments,       \* Comment rows: id -> [page, hidden]
    tickets,        \* Ticket rows: id -> [user, assignees, is_open]
    contests,       \* Contest rows: id -> fields
    contest_access, \* the contests Contest.get_visible_contests lists for the requester
    profile_orgs,   \* Profile.organizations: profile -> set of organizations
    org_admins,     \* Organization.admins: organization -> set of profiles
    staff,          \* the profiles whose user has is_staff
    profile,        \* request.profile: the logged-in profile, or NoProfile
    organization,   \* request.organization: the active context, or NoOrganization
    now,            \* timezone.now()
    edits,          \* number of writes made to the store and the session so far
    resp            \* what the last request returned

store == <<posts, comments, tickets, contests, contest_access, profile_orgs, org_admins,
          staff>>
session == <<profile, organization, now>>
vars == <<store, session, edits, resp>>

Idle == [view |-> "idle"]

\* request.user.is_authenticated
is_authenticated == profile # NoProfile

\* request.user.is_staff (the anonymous user is never staff)
is_staff == profile # NoProfile /\ profile \in staff

\* self.request.profile.organizations.all()
request_profile_organizations ==
    IF profile = NoProfile THEN {} ELSE profile_orgs[profile]

\* ------------------------------------------------------------ small helpers
Range(s) == {s[i] : i \in 1..Len(s)}

Occurrences(s, x) == Cardinality({i \in 1..Len(s) : s[i] = x})

\* ------------------------------------------------- PostList.get_queryset
\* BlogPost.objects.filter(visible=True, publish_on__lte=timezone.now())
PublishedFilter(p) == posts[p].visible /\ posts[p].publish_on <= now

\* PostRows with the membership test lost: an organization-private post is
\* listed for every logged-in viewer.
PostRowsAnyMember(p) ==
    LET post == posts[p]
        joined == IF post.organizations = {} THEN {NoOrganization}
                  ELSE post.organizations
    IN  IF organization # NoOrganization
        THEN {o \in post.organizations :
                /\ \/ ~post.is_organization_private
                   \/ is_authenticated
                /\ o = organization}
        ELSE IF is_authenticated
        THEN joined
        ELSE {o \in {NoOrganization} : ~post.is_organization_private}

\* The rows of the join of a post with its organizations that the WHERE
\* clause of queryset.filter(filter) keeps.  A Q on the many-to-many field
\* joins the through table: under the OR alone it is a LEFT OUTER JOIN (a
\* post without organizations keeps one row whose organization is NULL),
\* and with the AND on organizations=request.organization the same join is
\* an INNER JOIN.  Without either Q no join is made.
PostRows(p) ==
    LET post == posts[p]
        joined == IF post.organizations = {} THEN {NoOrganization}
                  ELSE post.organizations
    IN  IF organization # NoOrganization
        THEN {o \in post.organizations :
                /\ \/ ~post.is_organization_private
                   \/ is_authenticated /\ o \in request_profile_organizations
                /\ o = organization}
        ELSE IF is_authenticated
        THEN {o \in joined :
                \/ ~post.is_organization_private
                \/ o \in request_profile_organizations}
        ELSE {o \in {NoOrganization} : ~post.is_organization_private}

\* Number of result rows a post contributes to the queryset.
RowCount(p) == IF PublishedFilter(p) THEN Cardinality(PostRows(p)) ELSE 0

\* order_by("-sticky", "-publish_on"): p is strictly before q.
OrderedBefore(p, q) ==
    \/ posts[p].sticky /\ ~posts[q].sticky
    \/ posts[p].sticky = posts[q].sticky /\ posts[p].publish_on > posts[q].publish_on

\* Every sequence of rows the database may return: rows that tie under the
\* ORDER BY come in any order.
RECURSIVE OrderedSeqs(_)
OrderedSeqs(cnt) ==
    LET live == {p \in DOMAIN cnt : cnt[p] > 0}
        first == {p \in live : \A q \in live : ~OrderedBefore(q, p)}
    IN  IF live = {} THEN {<<>>}
        ELSE UNION {{<<p>> \o t : t \in OrderedSeqs([cnt EXCEPT ![p] = @ - 1])}
                    : p \in first}

get_queryset == OrderedSeqs([p \in PostIds |-> RowCount(p)])

PostListGetQueryset ==
    /\ \E qs \in get_queryset :
         resp' = [view |-> "PostList.get_queryset", queryset |-> qs]
    /\ UNCHANGED <<store, session, edits>>

\* ---------------------------------------------- PostList.get_context_data
paginate_by == 10

\* The object list of page n of the paginator: queryset[(n-1)*per : n*per].
PageObjects(qs, n) ==
    LET lo == (n - 1) * paginate_by + 1
        hi == IF n * paginate_by < Len(qs) THEN n * paginate_by ELSE Len(qs)
    IN  SubSeq(qs, lo, hi)

\* Number of pages; an empty list still has its first page.
NumPages(qs) ==
    IF Len(qs) = 0 THEN 1 ELSE (Len(qs) + paginate_by - 1) \div paginate_by

DigitChars == <<"0", "1", "2", "3", "4", "5", "6", "7", "8", "9">>

\* "%d" % n, as a sequence of characters.
RECURSIVE Decimal(_)
Decimal(n) ==
    IF n < 10 THEN <<DigitChars[n + 1]>>
    ELSE Decimal(n \div 10) \o <<DigitChars[(n % 10) + 1]>>

\* "b:%d" % post.id
BlogPage(id) == <<"b", ":">> \o Decimal(id)

\* int(s) of a string of decimal digits.
RECURSIVE ParseInt(_)
ParseInt(s) ==
    LET d == CHOOSE v \in 0..9 : DigitChars[v + 1] = s[Len(s)]
    IN  IF Len(s) = 1 THEN d ELSE 10 * ParseInt(SubSeq(s, 1, Len(s) - 1)) + d

\* page[2:]
AfterPrefix(page) == SubSeq(page, 3, Len(page))

\* The page keys a comment may carry: the blog page of every post, the blog
\* page of a post that is not in the store, and a page that is no blog page.
PageKeys ==
    {BlogPage(p) : p \in PostIds} \cup {BlogPage(NumPosts + 10), <<"p", ":", "1">>}

\* CountedComments without hidden=False.
CountedCommentsWithHidden(listed) ==
    {c \in CommentIds :
        comments[c].page \in {BlogPage(listed[i]) : i \in 1..Len(listed)}}

\* Comment.objects.filter(page__in=[...], hidden=False)
CountedComments(listed) ==
    {c \in CommentIds :
        /\ comments[c].page \in {BlogPage(listed[i]) : i \in 1..Len(listed)}
        /\ ~comments[c].hidden}

\* {int(page[2:]): count for page, count in
\*      ...values_list("page").annotate(count=Count("page")).order_by()}
post_comment_counts(listed) ==
    LET counted == CountedComments(listed)
        groups == {comments[c].page : c \in counted}
        keys == {ParseInt(AfterPrefix(g)) : g \in groups}
    IN  [k \in keys |->
            LET g == CHOOSE h \in groups : ParseInt(AfterPrefix(h)) = k
            IN  Cardinality({c \in counted : comments[c].page = g})]

PostListGetContextData ==
    /\ \E qs \in get_queryset : \E n \in 1..NumPages(qs) :
         LET listed == PageObjects(qs, n)
         IN  resp' = [view |-> "PostList.get_context_data",
                      page |-> n,
                      posts |-> listed,
                      post_comment_counts |-> post_comment_counts(listed)]
    /\ UNCHANGED <<store, session, edits>>

\* ------------------------------------------------ TicketFeed.get_queryset
\* OwnTicketRows without the Q on the assignees.
OwnTicketRowsOwnerOnly(t) ==
    IF tickets[t].is_open /\ tickets[t].user = profile THEN {NoProfile} ELSE {}

\* Ticket.objects.filter(Q(user=profile) | Q(assignees__in=[profile]),
\* is_open=True): the OR over the many-to-many field is a LEFT OUTER JOIN
\* with the assignees, one row per assignee (one NULL row without any).
OwnTicketRows(t) ==
    LET ticket == tickets[t]
        joined == IF ticket.assignees = {} THEN {NoProfile} ELSE ticket.assignees
    IN  IF ticket.is_open
        THEN {a \in joined :
                \/ ticket.user = profile
                \/ a # NoProfile /\ a = profile}
        ELSE {}

RECURSIVE Repeat(_, _)
Repeat(x, n) == IF n = 0 THEN <<>> ELSE <<x>> \o Repeat(x, n - 1)

\* order_by("-id") of rows given by their count per id 1..n.
RECURSIVE OrderByIdDesc(_, _)
OrderByIdDesc(cnt, n) ==
    IF n = 0 THEN <<>> ELSE Repeat(n, cnt[n]) \o OrderByIdDesc(cnt, n - 1)

\* Ticket.objects.order_by("-id").filter(is_open=True)
OpenTickets ==
    OrderByIdDesc([t \in TicketIds |-> IF tickets[t].is_open THEN 1 ELSE 0],
                  NumTickets)

\* judge.utils.tickets.filter_visible_tickets: it filters the queryset it is
\* given; which tickets it keeps is its own business.
filter_visible_tickets(queryset, keep) ==
    SelectSeq(queryset, LAMBDA t : t \in keep)

\* ticket_feed whose own feed forgets the login check and the owner filter:
\* every open ticket is returned.
ticket_feed_OwnUnfiltered(is_own, keep) ==
    LET none == [result |-> <<>>, consulted |-> FALSE, handed |-> <<>>]
    IN  IF is_own
        THEN [none EXCEPT !.result = OpenTickets]
        ELSE IF is_staff
             THEN [result |-> filter_visible_tickets(OpenTickets, keep),
                   consulted |-> TRUE,
                   handed |-> OpenTickets]
             ELSE none

\* ticket_feed whose full feed asks for a login where it must ask for staff.
ticket_feed_AnyLogin(is_own, keep) ==
    LET none == [result |-> <<>>, consulted |-> FALSE, handed |-> <<>>]
    IN  IF is_own
        THEN IF is_authenticated
             THEN [none EXCEPT !.result =
                     OrderByIdDesc([t \in TicketIds |->
                                      Cardinality(OwnTicketRows(t))], NumTickets)]
             ELSE none
        ELSE IF is_authenticated
             THEN [result |-> filter_visible_tickets(OpenTickets, keep),
                   consulted |-> TRUE,
                   handed |-> OpenTickets]
             ELSE none

\* What get_queryset returns, with whether the external filter was called,
\* on what, and with what answer.
ticket_feed(is_own, keep) ==
    LET none == [result |-> <<>>, consulted |-> FALSE, handed |-> <<>>]
    IN  IF is_own
        THEN IF is_authenticated
             THEN [none EXCEPT !.result =
                     OrderByIdDesc([t \in TicketIds |->
                                      Cardinality(OwnTicketRows(t))], NumTickets)]
             ELSE none
        ELSE IF is_staff
             THEN [result |-> filter_visible_tickets(OpenTickets, keep),
                   consulted |-> TRUE,
                   handed |-> OpenTickets]
             ELSE none

TicketFeedGetQueryset(is_own) ==
    /\ \E keep \in (IF ~is_own /\ is_staff THEN SUBSET TicketIds ELSE {{}}) :
         LET r == ticket_feed(is_own, keep)
         IN  resp' = [view |-> "TicketFeed.get_queryset",
                      is_own |-> is_own,
                      keep |-> keep,
                      result |-> r.result,
                      consulted |-> r.consulted,
                      handed |-> r.handed]
    /\ UNCHANGED <<store, session, edits>>

\* ------------------------------------------------------------- PostView
\* get_object raising PermissionDenied where it must raise Http404.
get_object_PermissionDenied(pk, can_see) ==
    IF ~can_see
    THEN [outcome |-> "PermissionDenied", returned |-> {}]
    ELSE [outcome |-> "post", returned |-> {pk}]

\* get_object: the post fetched by its key, unless post.can_see(request.user)
\* (judge.models.BlogPost.can_see, an input here) says no.
get_object(pk, can_see) ==
    IF ~can_see
    THEN [outcome |-> "Http404", returned |-> {}]
    ELSE [outcome |-> "post", returned |-> {pk}]

PostViewGetObject(pk) ==
    /\ \E can_see \in BOOLEAN :
         LET r == get_object(pk, can_see)
         IN  resp' = [view |-> "PostView.get_object",
                      pk |-> pk,
                      can_see |-> can_see,
                      outcome |-> r.outcome,
                      returned |-> r.returned]
    /\ UNCHANGED <<store, session, edits>>

\* valid_user_to_show_edit reading the members of the organizations where
\* it must read their admins.
valid_user_to_show_edit_Members(p) ==
    \/ profile \in posts[p].authors
    \/ \E o \in posts[p].organizations : o \in request_profile_organizations

\* context["valid_user_to_show_edit"]
valid_user_to_show_edit(p) ==
    \/ profile \in posts[p].authors
    \/ \E o \in posts[p].organizations : profile \in org_admins[o]

\* The elements of a set of ids in the order organizations.all() lists them.
RECURSIVE InListingOrder(_)
InListingOrder(S) ==
    IF S = {} THEN <<>>
    ELSE LET m == CHOOSE x \in S : \A y \in S : x <= y
         IN  <<m>> \o InListingOrder(S \ {m})

\* valid_org_to_show_edit filled whether or not the viewer may edit.
valid_org_to_show_edit_Always(p) ==
    SelectSeq(InListingOrder(posts[p].organizations),
              LAMBDA o : o \in request_profile_organizations)

\* context["valid_org_to_show_edit"]
valid_org_to_show_edit(p) ==
    IF valid_user_to_show_edit(p)
    THEN SelectSeq(InListingOrder(posts[p].organizations),
                   LAMBDA o : o \in request_profile_organizations)
    ELSE <<>>

PostViewGetContextData(p) ==
    /\ resp' = [view |-> "PostView.get_context_data",
                post |-> p,
                valid_user_to_show_edit |-> valid_user_to_show_edit(p),
                valid_org_to_show_edit |-> valid_org_to_show_edit(p)]
    /\ UNCHANGED <<store, session, edits>>

\* ------------------------------------------- FeedView.get_context_data
\* Contest.get_visible_contests(user, show_own_contests_only=True), which
\* the Contest model decides: the contests it lists for the requester.
get_visible_contests == contest_access

\* get_visible_contests(...).filter(is_visible=True) and, in an organization
\* context, .filter(is_organization_private=True,
\* organizations=request.organization).
visible_contests(visible) ==
    {c \in visible :
        /\ contests[c].is_visible
        /\ organization # NoOrganization =>
             /\ contests[c].is_organization_private
             /\ organization \in contests[c].organizations}

\* current_contests with end_time__gte for end_time__gt.
current_contests_Gte(visible) ==
    {c \in visible_contests(visible) :
        contests[c].start_time <= now /\ contests[c].end_time >= now}

\* visible_contests.filter(start_time__lte=now, end_time__gt=now)
current_contests(visible) ==
    {c \in visible_contests(visible) :
        contests[c].start_time <= now /\ contests[c].end_time > now}

\* visible_contests.filter(start_time__gt=now)
future_contests(visible) ==
    {c \in visible_contests(visible) : contests[c].start_time > now}

\* order_by("start_time"): every order of S the database may return.
RECURSIVE ByStartTime(_)
ByStartTime(S) ==
    LET first == {c \in S :
                    \A d \in S : contests[c].start_time <= contests[d].start_time}
    IN  IF S = {} THEN {<<>>}
        ELSE UNION {{<<c>> \o t : t \in ByStartTime(S \ {c})} : c \in first}

FeedViewGetContextData ==
    /\ \E cur \in ByStartTime(current_contests(get_visible_contests)) :
       \E fut \in ByStartTime(future_contests(get_visible_contests)) :
         resp' = [view |-> "FeedView.get_context_data",
                  current_contests |-> cur,
                  future_contests |-> fut]
    /\ UNCHANGED <<store, session, edits>>

\* ---------------------------------------------------- writes to the store
\* Every write invalidates the recorded response; at most MaxEdits writes.
Write == /\ edits < MaxEdits
         /\ edits' = edits + 1
         /\ resp' = Idle

Toggle(S, x) == IF x \in S THEN S \ {x} ELSE S \cup {x}

EditVisible(p) ==
    /\ Write
    /\ posts' = [posts EXCEPT ![p].visible = ~@]
    /\ UNCHANGED <<comments, tickets, contests, profile_orgs, org_admins, staff, contest_access, session>>

EditSticky(p) ==
    /\ Write
    /\ posts' = [posts EXCEPT ![p].sticky = ~@]
    /\ UNCHANGED <<comments, tickets, contests, profile_orgs, org_admins, staff, contest_access, session>>

EditPrivate(p) ==
    /\ Write
    /\ posts' = [posts EXCEPT ![p].is_organization_private = ~@]
    /\ UNCHANGED <<comments, tickets, contests, profile_orgs, org_admins, staff, contest_access, session>>

EditPublishOn(p, t) ==
    /\ Write
    /\ t # posts[p].publish_on
    /\ posts' = [posts EXCEPT ![p].publish_on = t]
    /\ UNCHANGED <<comments, tickets, contests, profile_orgs, org_admins, staff, contest_access, session>>

EditPostOrganization(p, o) ==
    /\ Write
    /\ posts' = [posts EXCEPT ![p].organizations = Toggle(@, o)]
    /\ UNCHANGED <<comments, tickets, contests, profile_orgs, org_admins, staff, contest_access, session>>

EditPostAuthor(p, pr) ==
    /\ Write
    /\ posts' = [posts EXCEPT ![p].authors = Toggle(@, pr)]
    /\ UNCHANGED <<comments, tickets, contests, profile_orgs, org_admins, staff, contest_access, session>>

\* The logged-in profile joins or leaves an organization.
EditMembership(o) ==
    /\ Write
    /\ profile # NoProfile
    /\ profile_orgs' = [profile_orgs EXCEPT ![profile] = Toggle(@, o)]
    /\ UNCHANGED <<posts, comments, tickets, contests, org_admins, staff, contest_access, session>>

EditOrganizationAdmin(o, pr) ==
    /\ Write
    /\ org_admins' = [org_admins EXCEPT ![o] = Toggle(@, pr)]
    /\ UNCHANGED <<posts, comments, tickets, contests, profile_orgs, staff, contest_access, session>>

EditStaff(pr) ==
    /\ Write
    /\ staff' = Toggle(staff, pr)
    /\ UNCHANGED <<posts, comments, tickets, contests, profile_orgs, org_admins, contest_access, session>>

EditCommentPage(c, page) ==
    /\ Write
    /\ page # comments[c].page
    /\ comments' = [comments EXCEPT ![c].page = page]
    /\ UNCHANGED <<posts, tickets, contests, profile_orgs, org_admins, staff, contest_access, session>>

EditCommentHidden(c) ==
    /\ Write
    /\ comments' = [comments EXCEPT ![c].hidden = ~@]
    /\ UNCHANGED <<posts, tickets, contests, profile_orgs, org_admins, staff, contest_access, session>>

EditTicketUser(t, pr) ==
    /\ Write
    /\ pr # tickets[t].user
    /\ tickets' = [tickets EXCEPT ![t].user = pr]
    /\ UNCHANGED <<posts, comments, contests, profile_orgs, org_admins, staff, contest_access, session>>

EditTicketAssignee(t, pr) ==
    /\ Write
    /\ tickets' = [tickets EXCEPT ![t].assignees = Toggle(@, pr)]
    /\ UNCHANGED <<posts, comments, contests, profile_orgs, org_admins, staff, contest_access, session>>

EditTicketOpen(t) ==
    /\ Write
    /\ tickets' = [tickets EXCEPT ![t].is_open = ~@]
    /\ UNCHANGED <<posts, comments, contests, profile_orgs, org_admins, staff, contest_access, session>>

\* A contest starts before it ends.
EditContestTimes(c, s, e) ==
    /\ Write
    /\ s < e
    /\ <<s, e>> # <<contests[c].start_time, contests[c].end_time>>
    /\ contests' = [contests EXCEPT ![c].start_time = s, ![c].end_time = e]
    /\ UNCHANGED <<posts, comments, tickets, profile_orgs, org_admins, staff, contest_access, session>>

EditContestVisible(c) ==
    /\ Write
    /\ contests' = [contests EXCEPT ![c].is_visible = ~@]
    /\ UNCHANGED <<posts, comments, tickets, profile_orgs, org_admins, staff, contest_access, session>>

EditContestPrivate(c) ==
    /\ Write
    /\ contests' = [contests EXCEPT ![c].is_organization_private = ~@]
    /\ UNCHANGED <<posts, comments, tickets, profile_orgs, org_admins, staff, contest_access, session>>

EditContestOrganization(c, o) ==
    /\ Write
    /\ contests' = [contests EXCEPT ![c].organizations = Toggle(@, o)]
    /\ UNCHANGED <<posts, comments, tickets, profile_orgs, org_admins, staff, contest_access, session>>

\* The requester gains or loses access to a contest.
EditContestAccess(c) ==
    /\ Write
    /\ contest_access' = Toggle(contest_access, c)
    /\ UNCHANGED <<posts, comments, tickets, contests, profile_orgs, org_admins, staff, session>>

\* ------------------------------------------------------------ the session
Login(pr) ==
    /\ Write
    /\ profile = NoProfile
    /\ profile' = pr
    /\ UNCHANGED <<store, organization, now>>

Logout ==
    /\ Write
    /\ profile # NoProfile
    /\ profile' = NoProfile
    /\ UNCHANGED <<store, organization, now>>

SetOrganization(o) ==
    /\ Write
    /\ o # organization
    /\ organization' = o
    /\ UNCHANGED <<store, profile, now>>

Tick ==
    /\ Write
    /\ now < MaxTime
    /\ now' = now + 1
    /\ UNCHANGED <<store, profile, organization>>

\* ------------------------------------------------------------------ Init
\* The store holds default rows and nothing has been requested yet.
InitStore ==
    /\ posts = [p \in PostIds |->
                  [visible |-> TRUE, publish_on |-> 0, sticky |-> FALSE,
                   is_organization_private |-> FALSE, organizations |-> {},
                   authors |-> {}]]
    /\ comments = [c \in CommentIds |-> [page |-> BlogPage(1), hidden |-> FALSE]]
    /\ tickets = [t \in TicketIds |-> [user |-> 1, assignees |-> {}, is_open |-> TRUE]]
    /\ contests = [c \in ContestIds |->
                     [start_time |-> 0, end_time |-> 1, is_visible |-> TRUE,
                      is_organization_private |-> FALSE, organizations |-> {}]]
    /\ contest_access = ContestIds
    /\ profile_orgs = [pr \in Profiles |-> {}]
    /\ org_admins = [o \in Orgs |-> {}]
    /\ staff = {}
    /\ now = 0
    /\ edits = 0
    /\ resp = Idle

\* The first request may come from any session: logged in or not, in an
\* organization context or not.
Init ==
    /\ InitStore
    /\ profile \in {NoProfile} \cup Profiles
    /\ organization \in {NoOrganization} \cup Orgs

\* The views that do not read request.organization.
InitNoContext ==
    /\ InitStore
    /\ profile \in {NoProfile} \cup Profiles
    /\ organization = NoOrganization

\* No session yet.
InitLoggedOut ==
    /\ InitStore
    /\ profile = NoProfile
    /\ organization = NoOrganization

\* The contest lists do not read request.profile.
InitAnonymous ==
    /\ InitStore
    /\ profile = NoProfile
    /\ organization \in {NoOrganization} \cup Orgs

SessionChange ==
    \/ \E pr \in Profiles : Login(pr)
    \/ Logout
    \/ \E o \in Orgs \cup {NoOrganization} : SetOrganization(o)

NextPostList ==
    \/ \E p \in PostIds : EditVisible(p)
    \/ \E p \in PostIds : EditSticky(p)
    \/ \E p \in PostIds : EditPrivate(p)
    \/ \E p \in PostIds, t \in Times : EditPublishOn(p, t)
    \/ \E p \in PostIds, o \in Orgs : EditPostOrganization(p, o)
    \/ \E o \in Orgs : EditMembership(o)
    \/ SessionChange
    \/ Tick
    \/ PostListGetQueryset

SpecPostList == Init /\ [][NextPostList]_vars

NextComments ==
    \/ \E c \in CommentIds, k \in PageKeys : EditCommentPage(c, k)
    \/ \E c \in CommentIds : EditCommentHidden(c)
    \/ \E p \in PostIds : EditVisible(p)
    \/ \E p \in PostIds, o \in Orgs : EditPostOrganization(p, o)
    \/ \E pr \in Profiles : Login(pr)
    \/ PostListGetContextData

SpecComments == InitLoggedOut /\ [][NextComments]_vars

NextTickets ==
    \/ \E t \in TicketIds, pr \in Profiles : EditTicketUser(t, pr)
    \/ \E t \in TicketIds, pr \in Profiles : EditTicketAssignee(t, pr)
    \/ \E t \in TicketIds : EditTicketOpen(t)
    \/ \E pr \in Profiles : EditStaff(pr)
    \/ \E pr \in Profiles : Login(pr)
    \/ Logout
    \/ \E is_own \in BOOLEAN : TicketFeedGetQueryset(is_own)

SpecTickets == InitNoContext /\ [][NextTickets]_vars

NextPostView ==
    \/ \E p \in PostIds, pr \in Profiles : EditPostAuthor(p, pr)
    \/ \E p \in PostIds, o \in Orgs : EditPostOrganization(p, o)
    \/ \E o \in Orgs, pr \in Profiles : EditOrganizationAdmin(o, pr)
    \/ \E o \in Orgs : EditMembership(o)
    \/ \E pr \in Profiles : Login(pr)
    \/ Logout
    \/ \E p \in PostIds : PostViewGetContextData(p)

SpecPostView == InitNoContext /\ [][NextPostView]_vars

NextPostFetch ==
    \/ \E p \in PostIds : EditVisible(p)
    \/ \E p \in PostIds : EditPrivate(p)
    \/ \E p \in PostIds, o \in Orgs : EditPostOrganization(p, o)
    \/ \E p \in PostIds, pr \in Profiles : EditPostAuthor(p, pr)
    \/ \E o \in Orgs : EditMembership(o)
    \/ \E p \in PostIds : PostViewGetObject(p)

SpecPostFetch == InitNoContext /\ [][NextPostFetch]_vars

NextContests ==
    \/ \E c \in ContestIds, s \in Times, e \in 1..(MaxTime + 1) : EditContestTimes(c, s, e)
    \/ \E c \in ContestIds : EditContestVisible(c)
    \/ \E c \in ContestIds : EditContestPrivate(c)
    \/ \E c \in ContestIds, o \in Orgs : EditContestOrganization(c, o)
    \/ \E c \in ContestIds : EditContestAccess(c)
    \/ Tick
    \/ FeedViewGetContextData

SpecContests == InitAnonymous /\ [][NextContests]_vars

\* ------------------------------------------------------------ properties
InQueryset(p) == p \in Range(resp.queryset)

\* C1 as stated: a post is in the queryset of PostList.get_queryset iff it
\* is visible, published by now, and either not organization-private or
\* attached to an organization the viewer belongs to -- whatever the active
\* organization context.
C1_ListedIffVisibleToViewer ==
    resp.view = "PostList.get_queryset" =>
        \A p \in PostIds :
            InQueryset(p) <=>
                /\ posts[p].visible
                /\ posts[p].publish_on <= now
                /\ \/ ~posts[p].is_organization_private
                   \/ posts[p].organizations \cap request_profile_organizations # {}

\* C1, amended: without an organization context a post is in the queryset
\* iff it is visible, published by now, and either not organization-private
\* or attached to an organization the viewer belongs to; in the context of
\* organization O it is in the queryset iff it is visible, published by now,
\* attached to O, and either not organization-private or the viewer belongs
\* to O.
C1_ListedIffVisibleInContext ==
    resp.view = "PostList.get_queryset" =>
        \A p \in PostIds :
            InQueryset(p) <=>
                /\ posts[p].visible
                /\ posts[p].publish_on <= now
                /\ IF organization = NoOrganization
                   THEN \/ ~posts[p].is_organization_private
                        \/ posts[p].organizations \cap request_profile_organizations # {}
                   ELSE /\ organization \in posts[p].organizations
                        /\ \/ ~posts[p].is_organization_private
                           \/ organization \in request_profile_organizations

\* An organization-private post is listed for a member, in the context of
\* its organization.
C1_Witness ==
    /\ resp.view = "PostList.get_queryset"
    /\ organization # NoOrganization
    /\ \E p \in PostIds : InQueryset(p) /\ posts[p].is_organization_private

\* C2: PostView.get_object ends in Http404, with no post returned, when
\* can_see is false, and returns the fetched post itself when it is true.
C2_NotFoundUnlessVisible ==
    resp.view = "PostView.get_object" =>
        IF resp.can_see
        THEN resp.outcome = "post" /\ resp.returned = {resp.pk}
        ELSE resp.outcome = "Http404" /\ resp.returned = {}

C2_Witness ==
    /\ resp.view = "PostView.get_object"
    /\ ~resp.can_see
    /\ resp.outcome = "Http404"

\* C3: the own ticket feed of a viewer who is not logged in is empty,
\* whatever tickets are in the store.
C3_OwnFeedEmptyForAnonymous ==
    (resp.view = "TicketFeed.get_queryset" /\ resp.is_own /\ ~is_authenticated)
        => resp.result = <<>>

C3_Witness ==
    /\ resp.view = "TicketFeed.get_queryset"
    /\ resp.is_own
    /\ ~is_authenticated
    /\ resp.result = <<>>
    /\ \E t \in TicketIds : tickets[t].is_open

\* C4: the full ticket feed of a viewer who is not staff is empty and
\* filter_visible_tickets is not called; for staff it is what
\* filter_visible_tickets returns for the open tickets, newest first.
C4_FullFeedStaffOnly ==
    (resp.view = "TicketFeed.get_queryset" /\ ~resp.is_own) =>
        IF is_staff
        THEN /\ resp.consulted
             /\ resp.handed = OpenTickets
             /\ resp.result = filter_visible_tickets(resp.handed, resp.keep)
        ELSE resp.result = <<>> /\ ~resp.consulted

\* A logged-in viewer who is not staff and owns an open ticket gets nothing.
C4_Witness ==
    /\ resp.view = "TicketFeed.get_queryset"
    /\ ~resp.is_own
    /\ is_authenticated /\ ~is_staff
    /\ \E t \in TicketIds : tickets[t].is_open /\ tickets[t].user = profile
    /\ resp.result = <<>>

\* C5 as stated: the own feed of a logged-in viewer holds a ticket iff the
\* viewer is its owner or one of its assignees.
C5_OwnFeedOwnerOrAssignee ==
    (resp.view = "TicketFeed.get_queryset" /\ resp.is_own /\ is_authenticated) =>
        \A t \in TicketIds :
            t \in Range(resp.result) <=>
                (tickets[t].user = profile \/ profile \in tickets[t].assignees)

\* C5, amended: the own feed of a logged-in viewer holds a ticket iff the
\* ticket is open and the viewer is its owner or one of its assignees.
C5_OwnFeedOpenOwnerOrAssignee ==
    (resp.view = "TicketFeed.get_queryset" /\ resp.is_own /\ is_authenticated) =>
        \A t \in TicketIds :
            t \in Range(resp.result) <=>
                /\ tickets[t].is_open
                /\ tickets[t].user = profile \/ profile \in tickets[t].assignees

\* A ticket is in the own feed of an assignee who does not own it.
C5_Witness ==
    /\ resp.view = "TicketFeed.get_queryset"
    /\ resp.is_own
    /\ \E t \in Range(resp.result) :
         tickets[t].user # profile /\ profile \in tickets[t].assignees

\* C6: valid_user_to_show_edit is true iff the viewer is an author of the
\* post or an admin of an organization attached to it; it is false for a
\* viewer without a profile.
C6_EditIffAuthorOrAdmin ==
    resp.view = "PostView.get_context_data" =>
        LET post == posts[resp.post]
            author == profile # NoProfile /\ profile \in post.authors
            admin == profile # NoProfile /\
                     \E o \in Orgs : o \in post.organizations /\ profile \in org_admins[o]
        IN  resp.valid_user_to_show_edit <=> (author \/ admin)

\* An admin of an attached organization who is no author may edit.
C6_Witness ==
    /\ resp.view = "PostView.get_context_data"
    /\ resp.valid_user_to_show_edit
    /\ profile \notin posts[resp.post].authors

\* C7: valid_org_to_show_edit holds only organizations of the post that the
\* viewer belongs to; it holds all of them when valid_user_to_show_edit is
\* true and is empty when it is false.
C7_EditableOrganizations ==
    resp.view = "PostView.get_context_data" =>
        LET listed == Range(resp.valid_org_to_show_edit)
            shared == posts[resp.post].organizations \cap request_profile_organizations
        IN  /\ listed \subseteq posts[resp.post].organizations
            /\ listed \subseteq request_profile_organizations
            /\ resp.valid_user_to_show_edit => listed = shared
            /\ ~resp.valid_user_to_show_edit => resp.valid_org_to_show_edit = <<>>

C7_Witness ==
    /\ resp.view = "PostView.get_context_data"
    /\ resp.valid_user_to_show_edit
    /\ resp.valid_org_to_show_edit # <<>>

\* Number of comments that are not hidden and whose page is "b:<id>".
ShownComments(id) ==
    Cardinality({c \in CommentIds : ~comments[c].hidden /\ comments[c].page = BlogPage(id)})

\* C8: post_comment_counts gives every post on the page that has comments
\* which are not hidden on page "b:<id>" their number, and holds no entry
\* for any other post.
C8_CommentCounts ==
    resp.view = "PostList.get_context_data" =>
        LET counts == resp.post_comment_counts
        IN  /\ \A id \in Range(resp.posts) :
                 IF ShownComments(id) > 0
                 THEN id \in DOMAIN counts /\ counts[id] = ShownComments(id)
                 ELSE id \notin DOMAIN counts
            /\ DOMAIN counts \subseteq Range(resp.posts)

\* A listed post has a count although one of its comments is hidden.
C8_Witness ==
    /\ resp.view = "PostList.get_context_data"
    /\ \E id \in Range(resp.posts) :
         /\ id \in DOMAIN resp.post_comment_counts
         /\ \E c \in CommentIds : comments[c].hidden /\ comments[c].page = BlogPage(id)

Ascending(s) ==
    \A i \in 1..Len(s), j \in 1..Len(s) :
        i < j => contests[s[i]].start_time <= contests[s[j]].start_time

\* C9: of the contests get_visible_contests lists that have is_visible
\* (in an organization context: that are also organization-private and
\* attached to that organization), current_contests are those with
\* start_time <= now < end_time and future_contests those with
\* start_time > now; no contest is in both, an ended one is in neither, and
\* each list is in ascending order of start_time, without repetition.
C9_CurrentAndFutureContests ==
    resp.view = "FeedView.get_context_data" =>
        LET cur == resp.current_contests
            fut == resp.future_contests
            scoped == {c \in contest_access :
                         /\ contests[c].is_visible
                         /\ organization = NoOrganization
                            \/ /\ contests[c].is_organization_private
                               /\ organization \in contests[c].organizations}
        IN  /\ Range(cur) = {c \in scoped : contests[c].start_time <= now
                                            /\ now < contests[c].end_time}
            /\ Range(fut) = {c \in scoped : contests[c].start_time > now}
            /\ Range(cur) \cap Range(fut) = {}
            /\ \A c \in ContestIds :
                 contests[c].end_time <= now => c \notin Range(cur) \cup Range(fut)
            /\ Ascending(cur) /\ Ascending(fut)
            /\ \A c \in ContestIds : Occurrences(cur, c) <= 1 /\ Occurrences(fut, c) <= 1

C9_Witness ==
    /\ resp.view = "FeedView.get_context_data"
    /\ resp.current_contests # <<>>
    /\ resp.future_contests # <<>>

\* C10: the queryset of PostList.get_queryset holds each post at most once.
C10_NoPostListedTwice ==
    resp.view = "PostList.get_queryset" =>
        \A p \in PostIds : Occurrences(resp.queryset, p) <= 1

====
